---- MODULE Spec2Model ----
(***************************************************************************)
(* Model of scripts/generate-trends.js, which holds two versions of the    *)
(* trend pipeline:                                                         *)
(*   "v7"     the time-bucketed version  (X, Wiki, TikTok, HN)             *)
(*   "rising" the rising-keywords version (Google, Wikipedia, GitHub, HN,  *)
(*            Manual)                                                      *)
(* A JavaScript string is a sequence of one-character strings.  A JSON     *)
(* value read from a response is a record [t, v]: t is its JavaScript type *)
(* and v its characters (the digits of a number, empty when missing).      *)
(***************************************************************************)
EXTENDS Integers, Sequences, FiniteSets, TLC

\* ------------------------------------------------------------ strings

UpperChars == <<"A","B","C","D","E","F","G","H","I","J","K","L","M",
                "N","O","P","Q","R","S","T","U","V","W","X","Y","Z">>

LowerChars == <<"a","b","c","d","e","f","g","h","i","j","k","l","m",
                "n","o","p","q","r","s","t","u","v","w","x","y","z">>

DigitChars == <<"0","1","2","3","4","5","6","7","8","9">>

Range(s) == {s[i] : i \in 1..Len(s)}

UpperSet == Range(UpperChars)

LowerOf == [c \in UpperSet |-> LowerChars[CHOOSE i \in 1..26 : UpperChars[i] = c]]

\* String.prototype.toLowerCase on one ASCII character
ToLowerChar(c) == IF c \in UpperSet THEN LowerOf[c] ELSE c

toLowerCase(s) == [i \in 1..Len(s) |-> ToLowerChar(s[i])]

LowerAlnumSet == Range(LowerChars) \cup Range(DigitChars)

\* the character class [a-z0-9]
IsLowerAlnum(c) == c \in LowerAlnumSet

\* s.replace(/[^a-z0-9]/g, '')
StripNonAlnum(s) == SelectSeq(s, IsLowerAlnum)

\* s.slice(from, to) with 0 <= from (JavaScript's zero-based, end-exclusive)
Slice(s, from, to) ==
  IF from >= Len(s) \/ to <= from THEN <<>>
  ELSE SubSeq(s, from + 1, IF to < Len(s) THEN to ELSE Len(s))

\* s.replace(/_/g, ' ')
UnderscoresToSpaces(s) == [i \in 1..Len(s) |-> IF s[i] = "_" THEN " " ELSE s[i]]

RECURSIVE TrimLeft(_)
TrimLeft(s) == IF s # <<>> /\ Head(s) = " " THEN TrimLeft(Tail(s)) ELSE s

RECURSIVE TrimRight(_)
TrimRight(s) ==
  IF s # <<>> /\ s[Len(s)] = " " THEN TrimRight(SubSeq(s, 1, Len(s) - 1)) ELSE s

\* String.prototype.trim (blanks only: the alphabet has no other white space)
Trim(s) == TrimRight(TrimLeft(s))

\* s.includes(sub)
Includes(s, sub) ==
  \E i \in 0..(Len(s) - Len(sub)) : SubSeq(s, i + 1, i + Len(sub)) = sub

\* decimal digits of a natural number, as String(n) gives them
RECURSIVE Digits(_)
Digits(n) == IF n < 10 THEN <<DigitChars[n + 1]>>
             ELSE Digits(n \div 10) \o <<DigitChars[(n % 10) + 1]>>

RECURSIVE Repeat(_, _)
Repeat(c, n) == IF n = 0 THEN <<>> ELSE <<c>> \o Repeat(c, n - 1)

\* ------------------------------------------------------------ values

Str(s) == [t |-> "string", v |-> s]
Num(n) == [t |-> "number", v |-> Digits(n)]
Undefined == [t |-> "undefined", v |-> <<>>]

IsString(x) == x.t = "string"

\* JavaScript truthiness of a string, a number or undefined
Truthy(x) ==
  CASE x.t = "string" -> x.v # <<>>
    [] x.t = "number" -> x.v # <<"0">>
    [] OTHER -> FALSE

\* a function's completion: a returned value or a thrown exception
Returned(x) == [threw |-> FALSE, val |-> x]
Threw == [threw |-> TRUE, val |-> <<>>]

\* TrendRecord: the fields the aggregation reads (keyword) and sets (source)
Record(kw, src) == [keyword |-> kw, source |-> src]

\* -------------------------------------------------------- aggregation

\* dedupe's key: t.keyword.toLowerCase().replace(/[^a-z0-9]/g, '')
NormKey(s) == StripNonAlnum(toLowerCase(s))

\* mergeTrends' key: the same, then .slice(0, 20)
MergeKeyLen == 20

MergeKey(s) == Slice(NormKey(s), 0, MergeKeyLen)

\* a loop over s[lo..hi] in order: acc after Step on each element.  The
\* range is halved, and the first half is evaluated (left = left) before
\* the second starts, so that long arrays need no deep recursion.
RECURSIVE Fold(_, _, _, _, _)
Fold(Step(_, _), s, lo, hi, acc) ==
  IF lo > hi THEN acc
  ELSE IF lo = hi THEN Step(acc, s[lo])
  ELSE LET left == Fold(Step, s, lo, (lo + hi) \div 2, acc)
       IN IF left = left
            THEN Fold(Step, s, ((lo + hi) \div 2) + 1, hi, left)
            ELSE left

Loop(Step(_, _), s, acc) == Fold(Step, s, 1, Len(s), acc)

\* Variants of dedupe's filter: one that forgets the seen set, one that
\* forgets the length test.  The uniqueness and length properties tell them
\* from the filter of the source.
DedupeKeepsMissingSeen(k, seen) == ~(k = <<>> \/ Len(k) < 2)

DedupeKeepsMissingLength(k, seen) == k \notin seen

\* dedupe's filter callback on one record: keep it or not
DedupeKeeps(k, seen) ==
  /\ ~(k = <<>> \/ Len(k) < 2)
  /\ k \notin seen

\* one call of the filter callback: t.keyword.toLowerCase() throws a
\* TypeError when keyword is not a string, which ends dedupe
DedupeStep(acc, t) ==
  IF acc.threw THEN acc
  ELSE IF ~IsString(t.keyword) THEN [acc EXCEPT !.threw = TRUE]
  ELSE LET k == NormKey(t.keyword.v)
       IN IF DedupeKeeps(k, acc.seen)
            THEN [acc EXCEPT !.seen = @ \cup {k}, !.out = Append(@, t)]
            ELSE acc

Completion(acc) == IF acc.threw THEN Threw ELSE Returned(acc.out)

dedupe(arr) ==
  Completion(Loop(DedupeStep, arr, [seen |-> {}, out |-> <<>>, threw |-> FALSE]))

\* Variants of mergeTrends' test, without the seen set and without the
\* length test
MergeKeepsMissingSeen(key, seen) == Len(key) > 2

MergeKeepsMissingLength(key, seen) == key \notin seen

\* mergeTrends' test on one record
MergeKeeps(key, seen) == key \notin seen /\ Len(key) > 2

\* the body of mergeTrends' inner loop
MergeStep(acc, t) ==
  IF acc.threw THEN acc
  ELSE IF ~IsString(t.keyword) THEN [acc EXCEPT !.threw = TRUE]
  ELSE LET key == MergeKey(t.keyword.v)
       IN IF MergeKeeps(key, acc.seen)
            THEN [acc EXCEPT !.seen = @ \cup {key}, !.out = Append(@, t)]
            ELSE acc

\* A variant that concatenates the lists in the reverse of the priority order
RECURSIVE FlattenReversed(_)
FlattenReversed(ss) ==
  IF ss = <<>> THEN <<>> ELSE FlattenReversed(Tail(ss)) \o Head(ss)

\* Array.prototype.flat of a sequence of sequences
RECURSIVE Flatten(_)
Flatten(ss) == IF ss = <<>> THEN <<>> ELSE Head(ss) \o Flatten(Tail(ss))

\* mergeTrends' two nested loops visit the records in the order of the
\* concatenated sources, with one seen set across all of them
mergeTrends(sources) ==
  Completion(Loop(MergeStep, Flatten(sources),
                  [seen |-> {}, out |-> <<>>, threw |-> FALSE]))

\* ----------------------------------------------------------- responses

\* One element of a response body, after the fetcher's regular expression
\* or JSON field access picked it out: name is the field the keyword comes
\* from (the anchor text, article, tag, name, title or id) and aux the
\* second field the fetcher dereferences (GitHub's description).
RawItem(name, aux) == [name |-> name, aux |-> aux]

Text(s) == RawItem(Str(s), Undefined)

\* A response body: shape "list" is the shape the fetcher expects (for an
\* HTML or RSS text, the matches of its regular expression), "other" is
\* valid JSON of another shape, "invalid" is text JSON.parse rejects.
Body(shape, items) == [shape |-> shape, items |-> items]

\* The end of one HTTP request
NetError == [kind |-> "error", status |-> 0, body |-> Body("invalid", <<>>)]
NetTimeout == [kind |-> "timeout", status |-> 0, body |-> Body("invalid", <<>>)]
Response(status, body) == [kind |-> "response", status |-> status, body |-> body]

\* safeFetch: resolves {ok: false} on error and timeout, and
\* {ok: true, data} on every response, whatever its status code
safeFetch(o) ==
  IF o.kind = "response" THEN [ok |-> TRUE, data |-> o.body]
  ELSE [ok |-> FALSE, data |-> Body("invalid", <<>>)]

\* fetchURL: rejects on error and timeout; resolves the body of every
\* response that is not a redirect with a location, whatever its status
fetchURL(o) ==
  IF o.kind = "response" THEN Returned(o.body) ELSE Threw

\* ------------------------------------------------------ fetchers (v7)

XCap == 50
XSkip == { <<"t","w","i","t","t","e","r">>,
           <<"t","r","e","n","d","i","n","g">>,
           <<"t","r","e","n","d","s">> }

\* the state of a fetcher's loop: its seen set, its trends array, Wiki's
\* count, and whether the loop ended (a break, or a throw its catch took)
LoopStart == [seen |-> {}, trends |-> <<>>, count |-> 0, ended |-> FALSE]

\* trends.push(record), then the break when the cap is reached
Push(acc, rec, cap) ==
  [acc EXCEPT !.trends = Append(@, rec), !.ended = (Len(acc.trends) + 1 >= cap)]

XStep(acc, m) ==
  LET topic == Trim(m.name.v)
      lower == toLowerCase(topic)
  IN IF acc.ended THEN acc
     ELSE IF topic = <<>> \/ Len(topic) < 2 \/ lower \in acc.seen THEN acc
     ELSE IF lower \in XSkip THEN acc
     ELSE Push([acc EXCEPT !.seen = @ \cup {lower}], Record(Str(topic), "X"), XCap)

\* fetchXTrends after its await
fetchXTrends(o) ==
  LET res == safeFetch(o)
  IN IF ~res.ok THEN <<>> ELSE Loop(XStep, res.data.items, LoopStart).trends

WikiCap == 50
WikiStartRank == 5
WikipediaSkip == { <<"M","a","i","n","_","P","a","g","e">>,
                   <<"S","p","e","c","i","a","l",":">>,
                   <<"W","i","k","i","p","e","d","i","a",":">>,
                   <<"P","o","r","t","a","l",":">>,
                   <<"F","i","l","e",":">>,
                   <<"H","e","l","p",":">> }
WikiSkip == WikipediaSkip \cup { <<"T","e","m","p","l","a","t","e",":">> }

\* the loop over json.items[0].articles; a.article.includes throws when
\* article is not a string, and the catch returns the trends pushed so far
WikiStep(acc, a) ==
  IF acc.ended THEN acc
  ELSE IF ~IsString(a.name) THEN [acc EXCEPT !.ended = TRUE]
  ELSE IF \E sk \in WikiSkip : Includes(a.name.v, sk) THEN acc
  ELSE IF acc.count + 1 < WikiStartRank THEN [acc EXCEPT !.count = @ + 1]
  ELSE Push([acc EXCEPT !.count = @ + 1],
            Record(Str(UnderscoresToSpaces(a.name.v)), "Wiki"), WikiCap)

fetchWikipedia(o) ==
  LET res == safeFetch(o)
  IN IF ~res.ok THEN <<>>
     ELSE IF res.data.shape # "list" THEN <<>>
     ELSE Loop(WikiStep, res.data.items, LoopStart).trends

TikTokCap == 50
TikTokSkip == { <<"f","f","f">>, <<"f","4","f">>, <<"f","y","p">>,
                <<"f","o","r","y","o","u">>,
                <<"f","o","r","y","o","u","p","a","g","e">>,
                <<"v","i","r","a","l">>,
                <<"t","r","e","n","d","i","n","g">>,
                <<"t","i","k","t","o","k">>,
                <<"x","y","z","b","c","a">> }

HexSet == Range(DigitChars) \cup {"a","b","c","d","e","f"}

\* /^[0-9a-f]{3,6}$/
IsHexTag(tag) ==
  /\ Len(tag) >= 3 /\ Len(tag) <= 6
  /\ \A i \in 1..Len(tag) :
       tag[i] \in HexSet

TikTokStep(acc, m) ==
  LET tag == toLowerCase(m.name.v)
  IN IF acc.ended THEN acc
     ELSE IF tag \in acc.seen \/ tag \in TikTokSkip THEN acc
     ELSE IF IsHexTag(tag) THEN acc
     ELSE Push([acc EXCEPT !.seen = @ \cup {tag}], Record(Str(tag), "TikTok"), TikTokCap)

fetchTikTok(o) ==
  LET res == safeFetch(o)
  IN IF ~res.ok THEN <<>> ELSE Loop(TikTokStep, res.data.items, LoopStart).trends

HNCap == 50
HNTitleMax == 60
HNTitleCut == 57

\* fetchHN after the topstories await: the ids its loop will visit
\* (none when the request failed or the body is not a JSON array)
HNIdsV7(o) ==
  LET res == safeFetch(o)
  IN IF ~res.ok THEN <<>>
     ELSE IF res.data.shape # "list" THEN <<>>
     ELSE Slice(res.data.items, 0, HNCap)

\* one turn of fetchHN's loop after the item await: trends afterwards.
\* A title that is not a string has no length, so it is pushed as it is.
HNItemV7(o, trends) ==
  LET itemRes == safeFetch(o)
  IN IF ~itemRes.ok THEN trends
     ELSE IF itemRes.data.shape # "list" \/ itemRes.data.items = <<>> THEN trends
     ELSE LET title == itemRes.data.items[1].name
          IN IF ~Truthy(title) THEN trends
             ELSE IF IsString(title) /\ Len(title.v) > HNTitleMax
               THEN Append(trends,
                      Record(Str(Slice(title.v, 0, HNTitleCut) \o <<".",".",".">>), "HN"))
             ELSE Append(trends, Record(title, "HN"))

\* -------------------------------------------------- fetchers (rising)

\* fetchGoogleTrendsRSS: every <item> with a non-blank title is pushed
GoogleStep(acc, item) ==
  IF Truthy(item.name) /\ Trim(item.name.v) # <<>>
    THEN [acc EXCEPT !.trends = Append(@, Record(Str(Trim(item.name.v)), "Google"))]
    ELSE acc

fetchGoogleTrendsRSS(o) ==
  LET data == fetchURL(o)
  IN IF data.threw THEN <<>> ELSE Loop(GoogleStep, data.val.items, LoopStart).trends

WikipediaSlice == 50
WikipediaCap == 15

\* article.article.replace throws when article is not a string
WikipediaStep(acc, article) ==
  IF acc.ended THEN acc
  ELSE IF ~IsString(article.name) THEN [acc EXCEPT !.ended = TRUE]
  ELSE LET pushed ==
             IF ~(\E sk \in WikipediaSkip : Includes(article.name.v, sk))
               THEN [acc EXCEPT !.trends = Append(@,
                       Record(Str(UnderscoresToSpaces(article.name.v)), "Wikipedia"))]
               ELSE acc
       IN [pushed EXCEPT !.ended = (Len(pushed.trends) >= WikipediaCap)]

fetchWikipediaTrending(o) ==
  LET data == fetchURL(o)
  IN IF data.threw THEN <<>>
     ELSE IF data.val.shape # "list" THEN <<>>
     ELSE Loop(WikipediaStep, Slice(data.val.items, 0, WikipediaSlice), LoopStart).trends

GitHubCap == 10

\* repo.description?.slice throws when description is a number; repo.name
\* is pushed as the keyword whatever its type
GitHubStep(acc, repo) ==
  IF acc.ended THEN acc
  ELSE IF ~Truthy(repo.name) THEN acc
  ELSE IF repo.aux.t = "number" THEN [acc EXCEPT !.ended = TRUE]
  ELSE [acc EXCEPT !.trends = Append(@, Record(repo.name, "GitHub"))]

fetchGitHubTrending(o) ==
  LET data == fetchURL(o)
  IN IF data.threw THEN <<>>
     ELSE IF data.val.shape # "list" THEN <<>>
     ELSE Loop(GitHubStep, Slice(data.val.items, 0, GitHubCap), LoopStart).trends

HNRisingCap == 8
HNMaxWords == 5
HNKeepWords == 4

\* the characters of s before the n-th occurrence of c (all of s when
\* there are fewer than n)
BeforeNth(s, c, n) ==
  LET at == {i \in 1..Len(s) : s[i] = c}
  IN IF Cardinality(at) < n THEN s
     ELSE SubSeq(s, 1, (CHOOSE i \in at : Cardinality({j \in at : j < i}) = n - 1) - 1)

CountChar(s, c) == Len(SelectSeq(s, LAMBDA x : x = c))

\* fetchHackerNews' keyword from a title
HNKeyword(title) ==
  LET k1 == IF \E i \in 1..Len(title) : title[i] = ":"
              THEN Trim(BeforeNth(title, ":", 1)) ELSE title
  IN IF CountChar(k1, " ") + 1 > HNMaxWords
       THEN BeforeNth(k1, " ", HNKeepWords) ELSE k1

HNIdsRising(o) ==
  LET data == fetchURL(o)
  IN IF data.threw THEN <<>>
     ELSE IF data.val.shape # "list" THEN <<>>
     ELSE Slice(data.val.items, 0, HNRisingCap)

\* one turn of fetchHackerNews' loop; its inner catch swallows a failed
\* request, a body that is not JSON and the TypeError of title.includes
HNItemRising(o, trends) ==
  LET data == fetchURL(o)
  IN IF data.threw THEN trends
     ELSE IF data.val.shape # "list" \/ data.val.items = <<>> THEN trends
     ELSE LET title == data.val.items[1].name
          IN IF ~Truthy(title) THEN trends
             ELSE IF ~IsString(title) THEN trends
             ELSE Append(trends, Record(Str(HNKeyword(title.v)), "HN"))

\* A variant of the curated list whose first keyword has a key of 2
\* characters
getManualTrendsShortKeyword ==
  << Record(Str(<<"A","I">>), "Manual"),
     Record(Str(<<"C","l","a","u","d","e"," ","3",".","5">>), "Manual"),
     Record(Str(<<"S","o","r","a"," ","A","I">>), "Manual"),
     Record(Str(<<"G","e","m","i","n","i"," ","2",".","0">>), "Manual"),
     Record(Str(<<"A","p","p","l","e"," ","V","i","s","i","o","n"," ","P","r","o">>),
            "Manual") >>

\* getManualTrends
getManualTrends ==
  << Record(Str(<<"D","e","e","p","S","e","e","k">>), "Manual"),
     Record(Str(<<"C","l","a","u","d","e"," ","3",".","5">>), "Manual"),
     Record(Str(<<"S","o","r","a"," ","A","I">>), "Manual"),
     Record(Str(<<"G","e","m","i","n","i"," ","2",".","0">>), "Manual"),
     Record(Str(<<"A","p","p","l","e"," ","V","i","s","i","o","n"," ","P","r","o">>),
            "Manual") >>

\* ------------------------------------------------------------ rendering

RenderCap == 30
IndexCap == 30
CutoffDays == 14
SlotHours == 4
FallbackMin == 5

\* The clock counts hours; a date is a day number.  toISOString prints a
\* date with zero-padded fields of fixed width, so localeCompare on two
\* dates (and on two file names made of a date and a zero-padded slot)
\* orders them as the numbers do.
DateOf(clk) == clk \div 24

\* getTimestamp: the date and the 4-hour slot of the clock
getTimestamp(clk) ==
  [date |-> DateOf(clk), slot |-> ((clk % 24) \div SlotHours) * SlotHours]

\* A variant that names the pages of both versions by the date alone
PageNameDateOnly(v, t) == <<t.date>>

\* the page file of a run: `${ts.full}.html` is <<date, slot>> in v7,
\* `${today}.html` is <<date>> in the rising version
PageName(v, t) == IF v = "v7" THEN <<t.date, t.slot>> ELSE <<t.date>>

\* b.localeCompare(a) < 0 on two file names or dates: a sorts before b in
\* the descending order (compared field by field)
RECURSIVE Before(_, _)
Before(a, b) ==
  IF a = <<>> \/ b = <<>> THEN FALSE
  ELSE IF Head(a) # Head(b) THEN Head(a) > Head(b)
  ELSE Before(Tail(a), Tail(b))

\* files.sort((a, b) => b.localeCompare(a)): insertion of x into a sorted s
RECURSIVE InsertDesc(_, _)
InsertDesc(x, s) ==
  IF s = <<>> THEN <<x>>
  ELSE IF Before(Head(s), x) \/ Head(s) = x THEN <<Head(s)>> \o InsertDesc(x, Tail(s))
  ELSE <<x>> \o s

\* A variant that leaves the listing in the order readdirSync gave
SortDescMissing(s) == s

RECURSIVE SortDesc(_)
SortDesc(s) == IF s = <<>> THEN <<>> ELSE InsertDesc(Head(s), SortDesc(Tail(s)))

\* makeHTML / generateHTML: the document of a run, one item per record
Items(trends) ==
  [i \in 1..Len(trends) |->
     [rank |-> i, keyword |-> trends[i].keyword, source |-> trends[i].source]]

makeHTML(trends, t) ==
  [name |-> PageName("v7", t), count |-> Len(trends), items |-> Items(trends)]

generateHTML(trends, t) ==
  [name |-> PageName("rising", t), count |-> Len(trends),
   items |-> Items(Slice(trends, 0, RenderCap))]

NoDoc == [name |-> <<>>, count |-> 0 - 1, items |-> <<>>]

\* makeIndex: files grouped by date (f.slice(0, 10)), dates and the files
\* of a date sorted descending, a day block in the recent part when its
\* date is not before the cutoff (the clock's date minus 14 days)
DatesOf(files) == {f[1] : f \in Range(files)}

RECURSIVE SeqOfSet(_)
SeqOfSet(S) ==
  IF S = {} THEN <<>>
  ELSE LET x == CHOOSE y \in S : TRUE IN <<x>> \o SeqOfSet(S \ {x})

DayBlock(files, date) ==
  [date |-> date,
   slots |-> SortDesc(SelectSeq(files, LAMBDA f : f[1] = date))]

makeIndex(files, clk) ==
  LET dates == SortDesc([i \in 1..Cardinality(DatesOf(files)) |->
                           <<SeqOfSet(DatesOf(files))[i]>>])
      cutoff == DateOf(clk) - CutoffDays
      blocks == [i \in 1..Len(dates) |-> DayBlock(files, dates[i][1])]
  IN [recent |-> SelectSeq(blocks, LAMBDA b : b.date >= cutoff),
      older |-> SelectSeq(blocks, LAMBDA b : b.date < cutoff),
      links |-> <<>>]

\* generateIndexHTML: the 30 first files of the descending order
generateIndexHTML(files) ==
  [recent |-> <<>>, older |-> <<>>,
   links |-> Slice(SortDesc(files), 0, IndexCap)]

NoIndex == [recent |-> <<>>, older |-> <<>>, links |-> <<>>]

\* makeAPIIndex: the JSON files in descending order
makeAPIIndex(files) == SortDesc(files)

\* fs.readdirSync returns the names in an order the file system chooses:
\* every order of a small directory, three orders of a larger one
MaxPermuted == 3

Reverse(s) == [i \in 1..Len(s) |-> s[Len(s) + 1 - i]]

Listings(S) ==
  IF Cardinality(S) <= MaxPermuted
    THEN {s \in [1..Cardinality(S) -> S] :
            \A i, j \in 1..Cardinality(S) : i # j => s[i] # s[j]}
    ELSE LET d == SortDesc(SeqOfSet(S))
         IN {d, Reverse(d), Tail(d) \o <<Head(d)>>}

\* ------------------------------------------------- what a server sends

BigLen == 56
MaxFlakyId == 3
MaxRedirects == 1

Statuses == {200, 503}

kFooBar == <<"F","o","o"," ","B","a","r">>
kFooBarPadded == <<" ","f","o","o"," ","b","a","r"," ">>
kFooBarPunct == <<"f","o","o","-","b","a","r","!">>
kFooBarJoined == <<"F","o","o","B","a","r">>
kFoo_Bar == <<"F","o","o","_","B","a","r">>
kBaz == <<"B","a","z">>
kTrending == <<"T","r","e","n","d","i","n","g">>
kMainPage == <<"M","a","i","n","_","P","a","g","e">>
kCafe == <<"c","a","f","e">>
kFyp == <<"f","y","p">>
kShowHN == <<"S","h","o","w"," ","H","N",":"," ","F","o","o"," ","B","a","r">>
kSixWords == <<"o","n","e"," ","t","w","o"," ","t","h","r","e","e"," ",
               "f","o","u","r"," ","f","i","v","e"," ","s","i","x">>

\* a body of n distinct well-formed items kw1, kw2, ...
BigItems(n) == [i \in 1..n |-> Text(<<"k","w">> \o Digits(i))]

Filler(n) == [i \in 1..n |-> Text(<<"w">> \o Digits(i))]

\* the bodies a source may answer with, per version and fetcher
SmallBodies(v, f) ==
  CASE v = "v7" /\ f = 1 ->
         { Body("list", <<>>),
           Body("list", <<Text(kFooBar), Text(kFooBarPadded), Text(<<"a">>),
                          Text(kTrending), Text(kBaz)>>) }
    [] v = "v7" /\ f = 2 ->
         { Body("invalid", <<>>), Body("other", <<>>),
           Body("list", Filler(WikiStartRank - 1) \o
                        <<Text(kFoo_Bar), Text(kMainPage),
                          RawItem(Num(7), Undefined), Text(kBaz)>>) }
    [] v = "v7" /\ f = 3 ->
         { Body("list", <<>>),
           Body("list", <<Text(kFooBarJoined), Text(toLowerCase(kFooBarJoined)),
                          Text(kFyp), Text(kCafe), Text(kBaz)>>) }
    [] v = "rising" /\ f = 1 ->
         { Body("list", <<>>),
           Body("list", <<Text(kFooBar), Text(<<" "," ">>),
                          RawItem(Undefined, Undefined), Text(kBaz)>>) }
    [] v = "rising" /\ f = 2 ->
         { Body("invalid", <<>>), Body("other", <<>>),
           Body("list", <<Text(kFoo_Bar), Text(kMainPage),
                          RawItem(Num(7), Undefined), Text(kBaz)>>) }
    [] v = "rising" /\ f = 3 ->
         { Body("invalid", <<>>), Body("other", <<>>),
           Body("list", <<Text(kFooBarPunct), RawItem(Undefined, Undefined),
                          RawItem(Str(kBaz), Num(3)), Text(kCafe)>>),
           Body("list", <<RawItem(Num(5), Undefined)>>) }
    [] OTHER ->
         { Body("invalid", <<>>), Body("other", <<>>),
           Body("list", <<RawItem(Num(1), Undefined), RawItem(Num(2), Undefined)>>),
           Body("list", <<RawItem(Num(3), Undefined)>>) }

\* a body longer than every cap: BigLen items (for HN, BigLen ids)
BigBody(f) ==
  IF f = 4 THEN Body("list", [i \in 1..BigLen |-> RawItem(Num(10 + i), Undefined)])
  ELSE Body("list", BigItems(BigLen))

\* one short well-formed body per source (for HN, one id whose item comes)
LightBody(f) ==
  CASE f = 1 -> Body("list", <<Text(kFooBar)>>)
    [] f = 2 -> Body("list", Filler(WikiStartRank - 1) \o <<Text(kBaz)>>)
    [] f = 3 -> Body("list", <<Text(kCafe)>>)
    [] OTHER -> Body("list", <<RawItem(Num(MaxFlakyId + 6), Undefined)>>)

\* how a request of fetcher f may end, under a load of small, big or
\* light bodies
Outcomes(ld, v, f) ==
  IF ld = "big" THEN {NetError, Response(200, BigBody(f))}
  ELSE IF ld = "light" THEN {NetError, Response(200, LightBody(f))}
  ELSE {NetError, NetTimeout} \cup
       {Response(st, b) : st \in Statuses, b \in SmallBodies(v, f)}

\* the Hacker News item with a given id
HNItem(id) ==
  CASE id = <<"1">> -> Text(kShowHN)
    [] id = <<"2">> -> RawItem(Num(42), Undefined)
    [] id = <<"3">> -> Text(kSixWords \o Repeat("x", HNTitleMax))
    [] OTHER -> Text(<<"k","w">> \o id)

IdNumber(id) == CHOOSE n \in 0..(10 + BigLen) : Digits(n) = id

\* how the request for one item may end: the items with small ids may
\* fail or come back as text that is not JSON
ItemOutcomes(id) ==
  IF IdNumber(id) <= MaxFlakyId
    THEN { NetError, Response(200, Body("invalid", <<>>)),
           Response(200, Body("list", <<HNItem(id)>>)) }
    ELSE { Response(200, Body("list", <<HNItem(id)>>)) }

\* ------------------------------------------------------------- the run

VARIABLES
  version,   \* which of the two scripts runs
  load,      \* the bodies the sources send: "small", "big" or "light"
  clock,     \* the process's clock, in hours
  ts,        \* main's getTimestamp() / getToday(), taken before the fetches
  dir,       \* the .html pages of the output directory (index.html apart)
  api,       \* the .json files of the api directory (index.json apart)
  mainPc,    \* "start", "await", "done" or "aborted" (main rejected)
  fpc,       \* per fetcher: "idle", "pending", "items" (HN's loop), "settled"
  hops,      \* per fetcher: redirects followed by its request in flight
  results,   \* per fetcher: its local trends array, returned when it settles
  how,       \* per fetcher: how its (first) request ended
  values,    \* the array Promise.all fills and resolves with
  lastSettled, \* the fetcher whose promise settled latest (0: none yet)
  hnIds,     \* the ids HN's loop visits
  hnIdx,     \* the position of HN's loop
  all,       \* what dedupe / mergeTrends returned
  trends,    \* the list handed to the renderer
  page,      \* the page document written by this run
  index,     \* index.html
  apiIndex,  \* api/index.json
  indexLog   \* the two latest runs of the indexer: files, date and output

vars == <<version, load, clock, ts, dir, api, mainPc, fpc, hops, results, how, values,
          lastSettled, hnIds, hnIdx, all, trends, page, index, apiIndex, indexLog>>

Versions == {"v7", "rising"}
Fetchers == 1..4
HN == 4

\* the source tag each fetcher puts on its records, in main's order
SourceOrder(v) ==
  IF v = "v7" THEN <<"X", "Wiki", "TikTok", "HN">>
  ELSE <<"Google", "Wikipedia", "GitHub", "HN">>

StartDay == 40
StartClock == StartDay * 24 + 9

\* output directories of earlier runs
StartDir(v) ==
  IF v = "v7"
    THEN {<<StartDay - CutoffDays - 1, 20>>}
    ELSE {<<StartDay - 1>>}

\* what the continuation of fetcher f returns on the end o of its request
Fetch(v, f, o) ==
  CASE v = "v7" /\ f = 1 -> fetchXTrends(o)
    [] v = "v7" /\ f = 2 -> fetchWikipedia(o)
    [] v = "v7" /\ f = 3 -> fetchTikTok(o)
    [] v = "rising" /\ f = 1 -> fetchGoogleTrendsRSS(o)
    [] v = "rising" /\ f = 2 -> fetchWikipediaTrending(o)
    [] v = "rising" /\ f = 3 -> fetchGitHubTrending(o)

HNIds(v, o) == IF v = "v7" THEN HNIdsV7(o) ELSE HNIdsRising(o)

HNItemStep(v, o, tr) == IF v = "v7" THEN HNItemV7(o, tr) ELSE HNItemRising(o, tr)

\* how a request ended: a network error, a timeout, a status that is not
\* 2xx, a body of another shape than the fetcher expects, or none of these
Classify(o) ==
  CASE o.kind = "error" -> "error"
    [] o.kind = "timeout" -> "timeout"
    [] o.status < 200 \/ o.status > 299 -> "status"
    [] o.body.shape # "list" -> "malformed"
    [] OTHER -> "ok"

NumSettled == Cardinality({f \in Fetchers : fpc[f] = "settled"})

\* A variant that stores the values in the order the promises settle
PromiseAllStoreByCompletion(vals, f, v) == [vals EXCEPT ![NumSettled + 1] = v]

\* Promise.all keeps each promise's value at the promise's own index
PromiseAllStore(vals, f, v) == [vals EXCEPT ![f] = v]

\* A variant that resumes main as soon as one promise has settled
PromiseAllAnySettled == \E f \in Fetchers : fpc[f] = "settled"

\* Promise.all resolves once every promise has settled
PromiseAllSettled == \A f \in Fetchers : fpc[f] = "settled"

LogIndex(log, files, clk, out) ==
  LET e == [files |-> files, date |-> DateOf(clk), out |-> out]
  IN IF log = <<>> THEN <<e>> ELSE <<log[Len(log)], e>>

\* the state before main is called, in a directory earlier runs filled
InitRun ==
  /\ clock = StartClock
  /\ ts = getTimestamp(StartClock)
  /\ dir = StartDir(version)
  /\ api = IF version = "v7" THEN dir ELSE {}
  /\ mainPc = "start"
  /\ fpc = [f \in Fetchers |-> "idle"]
  /\ hops = [f \in Fetchers |-> 0]
  /\ results = [f \in Fetchers |-> <<>>]
  /\ how = [f \in Fetchers |-> "none"]
  /\ values = [f \in Fetchers |-> <<>>]
  /\ lastSettled = 0
  /\ hnIds = <<>>
  /\ hnIdx = 0
  /\ all = <<>>
  /\ trends = <<>>
  /\ page = NoDoc
  /\ index = NoIndex
  /\ apiIndex = <<>>
  /\ indexLog = <<>>

Init ==
  /\ version \in Versions
  /\ load = "small"
  /\ InitRun

InitCaps ==
  /\ version \in Versions
  /\ load = "big"
  /\ InitRun

\* main up to its await: the timestamp, then the four fetchers are called
\* one after the other, each running up to its first await (its request)
MainStart ==
  /\ mainPc = "start"
  /\ mainPc' = "await"
  /\ ts' = getTimestamp(clock)
  /\ fpc' = [f \in Fetchers |-> "pending"]
  /\ UNCHANGED <<version, load, clock, dir, api, hops, results, how, values, lastSettled, hnIds,
                 hnIdx, all, trends, page, index, apiIndex, indexLog>>

\* fetchURL follows a 3xx response that has a location with a new request
Redirect(f) ==
  /\ version = "rising"
  /\ fpc[f] \in {"pending", "items"}
  /\ hops[f] < MaxRedirects
  /\ hops' = [hops EXCEPT ![f] = @ + 1]
  /\ UNCHANGED <<version, load, clock, ts, dir, api, mainPc, fpc, results, how, values, lastSettled,
                 hnIds, hnIdx, all, trends, page, index, apiIndex, indexLog>>

\* the request of X, Wiki, TikTok (Google, Wikipedia, GitHub) ends and the
\* fetcher runs to its return
Respond(f) ==
  /\ f # HN
  /\ fpc[f] = "pending"
  /\ \E o \in Outcomes(load, version, f) :
       LET tr == Fetch(version, f, o)
       IN /\ results' = [results EXCEPT ![f] = tr]
          /\ values' = PromiseAllStore(values, f, tr)
          /\ how' = [how EXCEPT ![f] = Classify(o)]
  /\ fpc' = [fpc EXCEPT ![f] = "settled"]
  /\ lastSettled' = f
  /\ hops' = [hops EXCEPT ![f] = 0]
  /\ UNCHANGED <<version, load, clock, ts, dir, api, mainPc, hnIds, hnIdx, all, trends,
                 page, index, apiIndex, indexLog>>

\* HN's topstories request ends: the fetcher returns, or enters its loop
\* and requests the first item
HNTop ==
  /\ fpc[HN] = "pending"
  /\ \E o \in Outcomes(load, version, HN) :
       /\ how' = [how EXCEPT ![HN] = Classify(o)]
       /\ hnIds' = HNIds(version, o)
       /\ IF HNIds(version, o) = <<>>
            THEN /\ fpc' = [fpc EXCEPT ![HN] = "settled"]
                 /\ values' = PromiseAllStore(values, HN, results[HN])
                 /\ lastSettled' = HN
                 /\ hnIdx' = 0
            ELSE /\ fpc' = [fpc EXCEPT ![HN] = "items"]
                 /\ UNCHANGED <<values, lastSettled>>
                 /\ hnIdx' = 1
  /\ hops' = [hops EXCEPT ![HN] = 0]
  /\ UNCHANGED <<version, load, clock, ts, dir, api, mainPc, results, all, trends,
                 page, index, apiIndex, indexLog>>

\* the request of the loop's current item ends: the loop's turn runs, then
\* the next item is requested or the fetcher returns
HNItemDone ==
  /\ fpc[HN] = "items"
  /\ \E o \in ItemOutcomes(hnIds[hnIdx].name.v) :
       LET tr == HNItemStep(version, o, results[HN])
       IN /\ results' = [results EXCEPT ![HN] = tr]
          /\ IF hnIdx = Len(hnIds)
               THEN /\ fpc' = [fpc EXCEPT ![HN] = "settled"]
                    /\ values' = PromiseAllStore(values, HN, tr)
                    /\ lastSettled' = HN
                    /\ hnIdx' = hnIdx
               ELSE /\ UNCHANGED <<fpc, values, lastSettled>>
                    /\ hnIdx' = hnIdx + 1
  /\ hops' = [hops EXCEPT ![HN] = 0]
  /\ UNCHANGED <<version, load, clock, ts, dir, api, mainPc, how, hnIds, all, trends,
                 page, index, apiIndex, indexLog>>

\* main's rejection: main().catch logs and exits with status 1
MainAbort ==
  /\ mainPc' = "aborted"
  /\ UNCHANGED <<version, load, clock, ts, dir, api, fpc, hops, results, how, values, lastSettled,
                 hnIds, hnIdx, all, trends, page, index, apiIndex, indexLog>>

\* main after dedupe returned d: the page, the JSON file, both indexes
WritePagesV7(d) ==
  LET name == PageName("v7", ts)
  IN /\ mainPc' = "done"
     /\ all' = d
     /\ trends' = d
     /\ dir' = dir \cup {name}
     /\ page' = makeHTML(d, ts)
     /\ api' = api \cup {name}
     /\ \E l \in Listings(dir \cup {name}) :
          /\ index' = makeIndex(l, clock)
          /\ indexLog' = LogIndex(indexLog, dir \cup {name}, clock, makeIndex(l, clock))
     /\ \E l \in Listings(api \cup {name}) : apiIndex' = makeAPIIndex(l)
     /\ UNCHANGED <<version, load, clock, ts, fpc, hops, results, how, values,
                    lastSettled, hnIds, hnIdx>>

\* A variant of main that stops without writing when nothing was aggregated
MainResumeV7ExitWhenEmpty ==
  LET d == dedupe(Flatten(values))
  IN IF d.threw \/ d.val = <<>> THEN MainAbort ELSE WritePagesV7(d.val)

\* main after its await, v7: dedupe, then the writes
MainResumeV7 ==
  LET d == dedupe(Flatten(values))
  IN IF d.threw THEN MainAbort ELSE WritePagesV7(d.val)

\* main after its await, rising: mergeTrends with the manual list last,
\* the fallback, the page and the index
MainResumeRising ==
  LET manual == getManualTrends
      m == mergeTrends(values \o <<manual>>)
      name == PageName("rising", ts)
      shown == IF Len(m.val) < FallbackMin THEN m.val \o manual ELSE m.val
  IN IF m.threw THEN MainAbort
     ELSE /\ mainPc' = "done"
          /\ all' = m.val
          /\ trends' = shown
          /\ dir' = dir \cup {name}
          /\ page' = generateHTML(shown, ts)
          /\ \E l \in Listings(dir \cup {name}) :
               /\ index' = generateIndexHTML(l)
               /\ indexLog' = LogIndex(indexLog, dir \cup {name}, clock, generateIndexHTML(l))
          /\ UNCHANGED <<version, load, clock, ts, api, apiIndex, fpc, hops, results, how,
                         values, lastSettled, hnIds, hnIdx>>

MainResume ==
  /\ mainPc = "await"
  /\ PromiseAllSettled
  /\ IF version = "v7" THEN MainResumeV7 ELSE MainResumeRising

Next ==
  \/ MainStart
  \/ \E f \in Fetchers : Redirect(f)
  \/ \E f \in Fetchers : Respond(f)
  \/ HNTop
  \/ HNItemDone
  \/ MainResume

Spec == Init /\ [][Next]_vars

\* the same program when every source sends more items than any cap
SpecCaps == InitCaps /\ [][Next]_vars

\* ------------------------------------------- the aggregator on any input

MaxLen == 3

kDashA == <<"-","a">>
kBang == <<"!">>
kAb == <<"a","b">>
kLongA == Repeat("x", MergeKeyLen) \o <<"a">>
kLongB == Repeat("x", MergeKeyLen) \o <<"b">>

\* keywords whose keys are equal (Foo Bar, foo-bar!), empty (!), one
\* character long (-a), two characters long (ab), and longer than
\* mergeTrends' slice with the same first 20 characters
KeywordPool ==
  {kFooBar, kFooBarPunct, kBaz, kDashA, kBang, kAb, kLongA, kLongB}

\* the fetchers that return records here: the first and the last of main's
\* priority order
AggSources == {1, HN}

\* the source of each of n records, in main's priority order
SourceSplits(n) ==
  {sp \in [1..n -> AggSources] : \A i \in 1..n : i < n => sp[i] <= sp[i + 1]}

\* the list fetcher f returned when the n records kws came from sources sp
ListOf(v, f, kws, sp) ==
  LET mine == SelectSeq([i \in 1..Len(kws) |-> [k |-> kws[i], f |-> sp[i]]],
                        LAMBDA r : r.f = f)
  IN [i \in 1..Len(mine) |-> Record(Str(mine[i].k), SourceOrder(v)[f])]

\* main at its await, every fetcher settled, with any lists of at most
\* MaxLen records in all
InitAgg ==
  /\ version \in Versions
  /\ load = "small"
  /\ clock = StartClock
  /\ ts = getTimestamp(StartClock)
  /\ dir = StartDir(version)
  /\ api = IF version = "v7" THEN dir ELSE {}
  /\ mainPc = "await"
  /\ fpc = [f \in Fetchers |-> "settled"]
  /\ hops = [f \in Fetchers |-> 0]
  /\ how = [f \in Fetchers |-> "ok"]
  /\ \E n \in 0..MaxLen : \E kws \in [1..n -> KeywordPool] : \E sp \in SourceSplits(n) :
       results = [f \in Fetchers |-> ListOf(version, f, kws, sp)]
  /\ values = results
  /\ lastSettled = HN
  /\ hnIds = <<>>
  /\ hnIdx = 0
  /\ all = <<>>
  /\ trends = <<>>
  /\ page = NoDoc
  /\ index = NoIndex
  /\ apiIndex = <<>>
  /\ indexLog = <<>>

NextAgg == MainResume

SpecAgg == InitAgg /\ [][NextAgg]_vars

\* ------------------------------------------ the indexer on any directory

MaxTicks == 2

FilePool(v) ==
  IF v = "v7"
    THEN { <<StartDay - CutoffDays - 1, 20>>, <<StartDay - CutoffDays, 0>>,
           <<StartDay - CutoffDays, 4>>, <<StartDay - 1, 8>>, <<StartDay, 4>> }
    ELSE { <<StartDay - 2>>, <<StartDay - 1>>, <<StartDay>> }

\* after a run of main, in any directory of pages
InitIndex ==
  /\ version \in Versions
  /\ load = "small"
  /\ clock = StartClock
  /\ ts = getTimestamp(StartClock)
  /\ dir \in SUBSET FilePool(version)
  /\ api = {}
  /\ mainPc = "done"
  /\ fpc = [f \in Fetchers |-> "settled"]
  /\ hops = [f \in Fetchers |-> 0]
  /\ how = [f \in Fetchers |-> "ok"]
  /\ results = [f \in Fetchers |-> <<>>]
  /\ values = [f \in Fetchers |-> <<>>]
  /\ lastSettled = 0
  /\ hnIds = <<>>
  /\ hnIdx = 0
  /\ all = <<>>
  /\ trends = <<>>
  /\ page = NoDoc
  /\ index = NoIndex
  /\ apiIndex = <<>>
  /\ indexLog = <<>>

\* the indexer of the running version
Indexer(v, files, clk) ==
  IF v = "v7" THEN makeIndex(files, clk) ELSE generateIndexHTML(files)

\* the indexer runs on the directory as readdirSync lists it
IndexerRun ==
  /\ \E l \in Listings(dir) :
       /\ index' = Indexer(version, l, clock)
       /\ indexLog' = LogIndex(indexLog, dir, clock, Indexer(version, l, clock))
  /\ UNCHANGED <<version, load, clock, ts, dir, api, mainPc, fpc, hops, results,
                 how, values, lastSettled, hnIds, hnIdx, all, trends, page, apiIndex>>

\* a day passes
ClockTick ==
  /\ clock < StartClock + 24 * MaxTicks
  /\ clock' = clock + 24
  /\ UNCHANGED <<version, load, ts, dir, api, mainPc, fpc, hops, results, how,
                 values, lastSettled, hnIds, hnIdx, all, trends, page, index, apiIndex, indexLog>>

NextIndex == IndexerRun \/ ClockTick

SpecIndex == InitIndex /\ [][NextIndex]_vars

\* ------------------------------------------------------------ properties

\* the records handed to the aggregator, in main's priority order
AggregatorInput ==
  IF version = "v7"
    THEN values[1] \o values[2] \o values[3] \o values[4]
    ELSE values[1] \o values[2] \o values[3] \o values[4] \o getManualTrends

\* a keyword lowercased, then every character outside a-z0-9 removed
Normalized(rec) == SelectSeq(toLowerCase(rec.keyword.v), LAMBDA c : c \in LowerAlnumSet)

\* C1: the output of dedupe / mergeTrends holds no two records whose
\* normalized keywords are equal.
C1_UniqueNormalizedKeywords ==
  mainPc = "done" =>
    \A i, j \in 1..Len(all) : i # j => Normalized(all[i]) # Normalized(all[j])

\* C1, its case: the input held two records with one normalized keyword,
\* long enough to be kept, and the aggregator has returned
C1_Witness ==
  /\ mainPc = "done"
  /\ \E i, j \in 1..Len(AggregatorInput) :
       /\ i < j
       /\ Normalized(AggregatorInput[i]) = Normalized(AggregatorInput[j])
       /\ Len(Normalized(AggregatorInput[i])) > 2
  /\ Len(all) >= 2

\* C2: every record of the output of dedupe / mergeTrends has a normalized
\* keyword of at least 2 characters.
C2_NormalizedLengthAtLeast2 ==
  mainPc = "done" => \A i \in 1..Len(all) : Len(Normalized(all[i])) >= 2

\* C2, its case: the input held a record whose normalized keyword is empty
\* and one whose normalized keyword has 1 character, next to one that is kept
C2_Witness ==
  /\ mainPc = "done"
  /\ \E i \in 1..Len(AggregatorInput) : Len(Normalized(AggregatorInput[i])) = 0
  /\ \E i \in 1..Len(AggregatorInput) : Len(Normalized(AggregatorInput[i])) = 1
  /\ \E i \in 1..Len(values[1]) : values[1][i] \in Range(all)

HasKey(input, k) == \E i \in 1..Len(input) : Normalized(input[i]) = k

FirstWithKey(input, k) ==
  CHOOSE i \in 1..Len(input) :
    /\ Normalized(input[i]) = k
    /\ \A h \in 1..(i - 1) : Normalized(input[h]) # k

\* C3: the output is a subsequence, in order, of the per-source lists
\* concatenated in priority order, and each record kept is the first record
\* of the concatenation that carries its normalized keyword.
C3_FirstSeenWinsInOrder ==
  mainPc = "done" =>
    /\ \A j \in 1..Len(all) :
         /\ HasKey(AggregatorInput, Normalized(all[j]))
         /\ all[j] = AggregatorInput[FirstWithKey(AggregatorInput, Normalized(all[j]))]
    /\ \A j \in 1..(Len(all) - 1) :
         FirstWithKey(AggregatorInput, Normalized(all[j]))
           < FirstWithKey(AggregatorInput, Normalized(all[j + 1]))

\* C3, its case: the specification's example, "Foo Bar" from the first
\* source, then "foo-bar!" and "Baz" from the last one
C3_Witness ==
  /\ mainPc = "done"
  /\ version = "v7"
  /\ values[1] = <<Record(Str(kFooBar), "X")>>
  /\ values[HN] = <<Record(Str(kFooBarPunct), "HN"), Record(Str(kBaz), "HN")>>
  /\ all = <<Record(Str(kFooBar), "X"), Record(Str(kBaz), "HN")>>

\* what the aggregator makes of the lists the fetchers returned, taken in
\* the priority order
AggregateOfResults ==
  IF version = "v7"
    THEN dedupe(results[1] \o results[2] \o results[3] \o results[4])
    ELSE mergeTrends(<<results[1], results[2], results[3], results[HN], getManualTrends>>)

\* C4: whatever the order in which the fetchers (and HN's item requests)
\* complete, the aggregated list is the one the priority order of the
\* sources and the order inside each returned list fix.
C4_OrderIndependentOfTiming ==
  mainPc = "done" => all = AggregateOfResults.val

\* C4, its case: a run has ended in which the first source of the priority
\* order completed last, after HN's loop over two items, and both sources
\* returned records
C4_Witness ==
  /\ mainPc = "done"
  /\ lastSettled = 1
  /\ results[1] # <<>>
  /\ hnIdx = 2
  /\ results[HN] # <<>>
  /\ Len(all) >= 2

\* C5: no response of any source makes the run abort: main never rejects.
C5_NoResponseAbortsTheRun == mainPc # "aborted"

\* C6: a fetcher whose request ended in a network error, a timeout, a
\* status that is not 2xx or a malformed body returns the empty list.
C6_FailedRetrievalGivesEmptyList ==
  \A f \in Fetchers :
    (fpc[f] = "settled" /\ how[f] \in {"error", "timeout", "status", "malformed"})
      => results[f] = <<>>

\* C7: every fetcher is started before any result is awaited, and the
\* aggregation and the file writes happen only once every fetcher settled.
C7_AwaitAllBarrier ==
  /\ mainPc # "start" => \A f \in Fetchers : fpc[f] # "idle"
  /\ (\E f \in Fetchers : fpc[f] = "settled") => \A g \in Fetchers : fpc[g] # "idle"
  /\ ( \/ mainPc \in {"done", "aborted"}
       \/ all # <<>> \/ trends # <<>> \/ page # NoDoc \/ index # NoIndex
       \/ dir # StartDir(version) )
       => \A f \in Fetchers : fpc[f] = "settled"

\* C7, its case: a run has aggregated and written its page, and its fetchers
\* settled in another order than main's (HN, the last, was not the latest)
C7_Witness ==
  /\ mainPc = "done"
  /\ page # NoDoc
  /\ all # <<>>
  /\ lastSettled = 2

SameFilesIndexedTwice ==
  /\ Len(indexLog) = 2
  /\ indexLog[1].files = indexLog[2].files

\* C8 as claimed: two runs of the indexer on the same set of file names
\* give the same index, also at different clock times.
C8_IndexIsFunctionOfListing ==
  SameFilesIndexedTwice => indexLog[1].out = indexLog[2].out

\* C8 as amended: two runs of the indexer on the same set of file names
\* give the same index when they run on the same date (makeIndex) or in
\* the rising version (generateIndexHTML), whatever order readdirSync used.
C8_IndexIsFunctionOfListingAndDate ==
  (SameFilesIndexedTwice
     /\ (version = "rising" \/ indexLog[1].date = indexLog[2].date))
    => indexLog[1].out = indexLog[2].out

\* C8, its case: makeIndex ran twice on the same date over the same three
\* files or more, two of them of one day
C8_Witness ==
  /\ version = "v7"
  /\ SameFilesIndexedTwice
  /\ indexLog[1].date = indexLog[2].date
  /\ Cardinality(dir) >= 3
  /\ \E a, b \in dir : a # b /\ a[1] = b[1]

AllFetchersReturnedNothing == \A f \in Fetchers : results[f] = <<>>

\* C9 as claimed: when every fetcher returns zero items, the aggregated
\* list has length 0 and the page, with an empty item list, is written.
C9_NoItemsGivesEmptyPage ==
  (mainPc \in {"done", "aborted"} /\ AllFetchersReturnedNothing) =>
    /\ mainPc = "done"
    /\ Len(all) = 0
    /\ page.items = <<>>
    /\ page.name \in dir

\* C9 as amended: when every fetcher returns zero items the run writes its
\* page; in v7 the aggregated list and the page's item list are empty, in
\* the rising version they are the 5 records of the manual list.
C9_NoItemsStillWritesPage ==
  (mainPc \in {"done", "aborted"} /\ AllFetchersReturnedNothing) =>
    /\ mainPc = "done"
    /\ page.name = PageName(version, ts)
    /\ page.name \in dir
    /\ IF version = "v7"
         THEN all = <<>> /\ page.count = 0 /\ page.items = <<>>
         ELSE /\ all = getManualTrends
              /\ page.count = Len(getManualTrends)
              /\ Len(page.items) = Len(getManualTrends)

\* C9, its case: a v7 run ended after every fetcher returned zero items,
\* one of them from a body that is not JSON, one from a failed request
C9_Witness ==
  /\ version = "v7"
  /\ mainPc = "done"
  /\ AllFetchersReturnedNothing
  /\ how[2] = "malformed"
  /\ how[HN] = "error"

\* the cap the claim gives each fetcher (for Google RSS, which has none in
\* the code, the largest cap of any fetcher)
ClaimedCap(v, f) ==
  IF v = "v7" THEN <<XCap, WikiCap, TikTokCap, HNCap>>[f]
  ELSE <<XCap, WikipediaCap, GitHubCap, HNRisingCap>>[f]

\* C10: every fetcher returns at most its fixed cap of records, whatever
\* the size of the response.
C10_FetchersAreCapped ==
  \A f \in Fetchers :
    fpc[f] = "settled" => Len(results[f]) <= ClaimedCap(version, f)

\* the records the stated rule keeps: record i of the input stays unless
\* its normalized key is empty, is shorter than 2 characters, or is the
\* normalized key of an earlier record
StatedKeeps(input, i) ==
  /\ Len(Normalized(input[i])) >= 2
  /\ \A h \in 1..(i - 1) : Normalized(input[h]) # Normalized(input[i])

KeptByStatedRule(input) ==
  LET tagged == [i \in 1..Len(input) |-> [i |-> i, rec |-> input[i]]]
      kept == SelectSeq(tagged, LAMBDA r : StatedKeeps(input, r.i))
  IN [j \in 1..Len(kept) |-> kept[j].rec]

\* C11: the aggregator (dedupe and mergeTrends) drops a record if and only
\* if its normalized key is empty, shorter than 2 characters, or equal to
\* the normalized key of an earlier record; a record whose key has exactly
\* 2 characters, or differs from the earlier keys only after its 20th
\* character, is kept.
C11_DroppedOnlyForStatedReasons ==
  mainPc = "done" => all = KeptByStatedRule(AggregatorInput)

\* ------------------------------------------------------ runs to their end

\* fetchURL follows every 3xx response that has a location and counts
\* nothing: the chain of locations a server sends may lead back to a URL
\* already requested.  hops is the place of the request in flight in that
\* chain, and here the last location redirects to the first one.
RedirectLoop(f) ==
  /\ version = "rising"
  /\ fpc[f] \in {"pending", "items"}
  /\ hops[f] = MaxRedirects
  /\ hops' = [hops EXCEPT ![f] = 0]
  /\ UNCHANGED <<version, load, clock, ts, dir, api, mainPc, fpc, results, how, values, lastSettled,
                 hnIds, hnIdx, all, trends, page, index, apiIndex, indexLog>>

\* the request fetcher f has in flight ends: in a response (a redirect is
\* one), an error or its timeout
RequestEnds(f) ==
  \/ Redirect(f)
  \/ RedirectLoop(f)
  \/ Respond(f)
  \/ (f = HN /\ (HNTop \/ HNItemDone))

NextLive ==
  \/ Next
  \/ \E f \in Fetchers : RedirectLoop(f)

\* the event loop runs main's synchronous parts when they are ready, and
\* every request ends
Fairness ==
  /\ WF_vars(MainStart)
  /\ WF_vars(MainResume)
  /\ \A f \in Fetchers : WF_vars(RequestEnds(f))

SpecLive == Init /\ [][NextLive]_vars /\ Fairness

Finished == mainPc \in {"done", "aborted"}

\* C12: when every request ends in a response, an error or its timeout,
\* every fetcher settles and every run passes the barrier and finishes,
\* also when a server answers every request of fetchURL with a redirect.
C12_EveryRunFinishes == <>Finished

\* how far a run has come: main's position, the fetchers settled, HN's loop
Progress ==
  (CASE mainPc = "start" -> 0 [] mainPc = "await" -> 1 [] OTHER -> 2) * 1000
    + NumSettled * 100 + hnIdx

\* every step of a run takes it further, except the following of a
\* redirect: a run that never finishes follows redirects for ever
C12_OnlyRedirectsRepeat ==
  [][\/ Progress' > Progress
     \/ /\ Progress' = Progress
        /\ \E f \in Fetchers : Redirect(f) \/ RedirectLoop(f)]_vars

\* ------------------------------------------------------- run after run

\* when the scheduler starts the script: twice in one 4-hour slot, in the
\* next slot of the same day, and a day later
RunTimes == {StartClock, StartClock + SlotHours, StartClock + 24}

InitRuns ==
  /\ version \in Versions
  /\ load = "light"
  /\ InitRun

\* the process has ended and the script is started again, at once or
\* later: a new process, in the directory the runs before it left
NewRun ==
  /\ mainPc \in {"done", "aborted"}
  /\ clock' \in {t \in RunTimes : t >= clock}
  /\ ts' = getTimestamp(clock')
  /\ mainPc' = "start"
  /\ fpc' = [f \in Fetchers |-> "idle"]
  /\ hops' = [f \in Fetchers |-> 0]
  /\ results' = [f \in Fetchers |-> <<>>]
  /\ how' = [f \in Fetchers |-> "none"]
  /\ values' = [f \in Fetchers |-> <<>>]
  /\ lastSettled' = 0
  /\ hnIds' = <<>>
  /\ hnIdx' = 0
  /\ all' = <<>>
  /\ trends' = <<>>
  /\ page' = NoDoc
  /\ UNCHANGED <<version, load, dir, api, index, apiIndex, indexLog>>

NextRuns ==
  \/ Next
  \/ NewRun

SpecRuns == InitRuns /\ [][NextRuns]_vars

\* main passes its await and writes: the run completes
RunCompletes == mainPc = "await" /\ mainPc' = "done"

\* the file name of the run's time bucket: date and 4-hour slot in the
\* time-bucketed version, the date in the rising version
BucketName ==
  IF version = "v7"
    THEN <<DateOf(clock), ((clock % 24) \div SlotHours) * SlotHours>>
    ELSE <<DateOf(clock)>>

\* C13 as stated: every completed run adds one new page file to the
\* output directory, so that the pages count the completed runs, and no
\* page written before is removed or replaced by a later run.
C13_EachRunAddsOneNewPage ==
  [][/\ dir \subseteq dir'
     /\ RunCompletes =>
          /\ page'.name \notin dir
          /\ dir' = dir \cup {page'.name}]_vars

\* C13: every completed run writes the page of its time bucket, adding it
\* when the bucket had no page and replacing the bucket's page when it had
\* one; the pages of the other buckets stay, and nothing but a completing
\* run changes the directory.
C13_EachRunWritesItsBucketPage ==
  [][/\ dir \subseteq dir'
     /\ RunCompletes =>
          /\ page'.name = BucketName
          /\ dir' = dir \cup {BucketName}
     /\ ~RunCompletes => dir' = dir]_vars

\* C13, its case: two runs completed one after the other in one time
\* bucket, and the second left the directory with the files the first left
C13_Witness ==
  /\ mainPc = "done"
  /\ Len(indexLog) = 2
  /\ indexLog[1].files = indexLog[2].files
  /\ page.name \in indexLog[1].files

\* ------------------------------------------- a run in a grown directory

\* how many pages more than generateIndexHTML's slice a directory may hold
ExtraFiles == 1
MaxFiles == IndexCap + ExtraFiles

\* the pages n earlier runs left: two slots a day in the time-bucketed
\* version, one page a day in the rising version
Archive(v, n) ==
  IF v = "v7"
    THEN {<<StartDay - 1 - ((i - 1) \div 2), ((i - 1) % 2) * SlotHours>> : i \in 1..n}
    ELSE {<<StartDay - i>> : i \in 1..n}

InitArchive ==
  /\ version \in Versions
  /\ load = "light"
  /\ clock = StartClock
  /\ ts = getTimestamp(StartClock)
  /\ \E n \in 0..MaxFiles : dir = Archive(version, n)
  /\ api = IF version = "v7" THEN dir ELSE {}
  /\ mainPc = "start"
  /\ fpc = [f \in Fetchers |-> "idle"]
  /\ hops = [f \in Fetchers |-> 0]
  /\ results = [f \in Fetchers |-> <<>>]
  /\ how = [f \in Fetchers |-> "none"]
  /\ values = [f \in Fetchers |-> <<>>]
  /\ lastSettled = 0
  /\ hnIds = <<>>
  /\ hnIdx = 0
  /\ all = <<>>
  /\ trends = <<>>
  /\ page = NoDoc
  /\ index = NoIndex
  /\ apiIndex = <<>>
  /\ indexLog = <<>>

SpecArchive == InitArchive /\ [][Next]_vars

\* the page files an index document links to, from its top to its end:
\* the recent days, then the older days, each with its slots (makeIndex),
\* or the day links (generateIndexHTML)
RECURSIVE SlotsOf(_)
SlotsOf(blocks) ==
  IF blocks = <<>> THEN <<>> ELSE Head(blocks).slots \o SlotsOf(Tail(blocks))

Listed(doc) == SlotsOf(doc.recent) \o SlotsOf(doc.older) \o doc.links

\* a file name is newer than another: a later date, or the same date and a
\* later slot
Newer(a, b) == a[1] > b[1] \/ (a[1] = b[1] /\ Len(a) = 2 /\ a[2] > b[2])

\* C14: after a completed run the index lists every page file of the
\* output directory exactly once, the newest first, however many files
\* have accumulated.
C14_IndexListsEveryPageNewestFirst ==
  mainPc = "done" =>
    /\ Range(Listed(index)) = dir
    /\ Len(Listed(index)) = Cardinality(dir)
    /\ \A i, j \in 1..Len(Listed(index)) :
         i < j => Newer(Listed(index)[i], Listed(index)[j])

\* ------------------------------------ the curated list among the sources

MaxFetched == 2

kDeepseek == <<"d","e","e","p","s","e","e","k">>
kSoraAI == <<"s","o","r","a","-","a","i","!">>

\* keywords the sources may return next to the curated list: the curated
\* keywords themselves, two spellings with the keys of curated keywords,
\* and keywords that are kept (Baz) or dropped (ab)
CuratedPool ==
  {getManualTrends[i].keyword.v : i \in 1..Len(getManualTrends)}
    \cup {kDeepseek, kSoraAI, kBaz, kAb}

\* the rising main at its await, every fetcher settled, the first and the
\* last fetcher having returned at most MaxFetched records in all
InitCurated ==
  /\ version = "rising"
  /\ load = "small"
  /\ clock = StartClock
  /\ ts = getTimestamp(StartClock)
  /\ dir = StartDir(version)
  /\ api = {}
  /\ mainPc = "await"
  /\ fpc = [f \in Fetchers |-> "settled"]
  /\ hops = [f \in Fetchers |-> 0]
  /\ how = [f \in Fetchers |-> "ok"]
  /\ \E n \in 0..MaxFetched : \E kws \in [1..n -> CuratedPool] : \E sp \in SourceSplits(n) :
       results = [f \in Fetchers |-> ListOf(version, f, kws, sp)]
  /\ values = results
  /\ lastSettled = HN
  /\ hnIds = <<>>
  /\ hnIdx = 0
  /\ all = <<>>
  /\ trends = <<>>
  /\ page = NoDoc
  /\ index = NoIndex
  /\ apiIndex = <<>>
  /\ indexLog = <<>>

SpecCurated == InitCurated /\ [][NextAgg]_vars

\* C15: in the rising version the merged list of a run has at least 5
\* records whatever the fetchers returned, the fallback that appends the
\* curated list a second time is not taken (the list handed to the
\* renderer is the merged list), and that list holds no two records with
\* one normalized keyword.
C15_FallbackNeverTaken ==
  (version = "rising" /\ mainPc = "done") =>
    /\ Len(all) >= FallbackMin
    /\ trends = all
    /\ \A i, j \in 1..Len(trends) :
         i # j => Normalized(trends[i]) # Normalized(trends[j])

\* C15, its case: a fetcher returned a record with the key of a curated
\* keyword, the curated record was dropped as its duplicate, and the merged
\* list has just the 5 records the fallback asks for
C15_Witness ==
  /\ version = "rising"
  /\ mainPc = "done"
  /\ \E i \in 1..Len(values[1]) :
       /\ Normalized(values[1][i]) = Normalized(getManualTrends[1])
       /\ values[1][i] \in Range(all)
  /\ getManualTrends[1] \notin Range(all)
  /\ Len(all) = FallbackMin

====
